---- MODULE Spec2Model ----
(***************************************************************************)
(* A model of dezoomify.py: the Zoomify pyramid geometry computed by       *)
(* UntilerDezoomify (getZoomLevels, getProperties, getTileIndex,           *)
(* getImageTileURL) and the download/join pipeline of                      *)
(* ImageUntiler.getImage (downloader threads, the consume loop of the main *)
(* thread, the jpegtran calls and the cleanup).                            *)
(*                                                                         *)
(* Two families of specifications share the variables:                     *)
(*   SpecGeom  - getProperties from the parsed WIDTH/HEIGHT/TILESIZE on;    *)
(*   Spec      - one call of getImage on a tile grid xTiles x yTiles.       *)
(* Python indexes levels from 0, TLA+ sequences from 1: Python levels[i]   *)
(* is levels[i + 1] here; zoomLevel and maxZoom keep their Python values.  *)
(***************************************************************************)
EXTENDS Integers, Sequences, FiniteSets, TLC

VARIABLES
    \* ---- UntilerDezoomify: geometry ----
    maxWidth,       \* self.maxWidth  (WIDTH of ImageProperties.xml)
    maxHeight,      \* self.maxHeight (HEIGHT)
    tileSize,       \* self.tileSize  (TILESIZE)
    reqZoom,        \* args.zoomLevel: [given, text]; default False is given = FALSE
    gpc,            \* position inside getProperties
    locWidth,       \* getZoomLevels local
    locHeight,      \* getZoomLevels local
    levels,         \* self.levels
    maxZoom,        \* self.maxZoom
    zoomLevel,      \* self.zoomLevel
    width,          \* self.width, a float: kept exactly as the fraction num/den
    height,         \* self.height, likewise
    zoomWarned,     \* the "requested zoom level is not available" warning was logged
    tileUrl,        \* the last result of getImageTileURL
    \* ---- shared by both ----
    xTiles,         \* self.xTiles
    yTiles,         \* self.yTiles
    \* ---- ImageUntiler.getImage ----
    nthreads,       \* self.nthreads
    nodownload,     \* self.nodownload
    store,          \* self.store
    mpc,            \* position of the main thread inside getImage
    started,        \* number of downloader threads started so far
    downloadQueue,  \* queue.Queue of (col,row) still to download
    joinQueue,      \* queue.Queue of (col,row) downloaded and waiting to be joined
    wpc,            \* position of each downloader thread
    wtask,          \* the (col,row) a downloader thread holds
    fetchResult,    \* outcome of downloadUrl for each tile ("none" = never attempted)
    activeTmp,      \* index of the active temp image
    numJoined,      \* numJoined
    numMissing,     \* numMissing (-1 = not yet computed)
    jtile,          \* the (col,row) the main thread took from joinQueue
    putCount,       \* how often each (col,row) was put on joinQueue
    tmpimgs,        \* which of the two temp image files exist
    tileDirExists,  \* self.tileDir exists
    ops,            \* the jpegtran calls issued so far, in order, with their outcome
    attempts,       \* how often downloadUrl was called for each (col,row)
    stage,          \* the staging file of each (col,row) in self.tileDir
    tmpContent,     \* what each of the two temp image files holds
    missingWarned,  \* the "Image is missing ..." warning was logged
    interrupted,    \* KeyboardInterrupt was raised in the main thread
    \* ---- ImageUntiler.__init__: the loop over self.imageDirs ----
    batch,          \* what the server returns for each entry of self.imageDirs
    base,           \* args.base
    bidx,           \* the entry being processed (1 = first)
    bpc,            \* position inside the loop of __init__
    processed       \* the entries whose getImage has returned

geomVars == <<maxWidth, maxHeight, tileSize, reqZoom, gpc, locWidth, locHeight,
              levels, maxZoom, zoomLevel, width, height, zoomWarned, tileUrl>>
confVars == <<nthreads, nodownload, store>>
workVars == <<downloadQueue, wpc, wtask, fetchResult, attempts>>
mainVars == <<mpc, started, activeTmp, numJoined, numMissing, missingWarned, jtile, ops>>
fileVars == <<tmpimgs, tileDirExists, tmpContent>>
pipeVars == <<confVars, workVars, mainVars, fileVars, stage, joinQueue, putCount,
              interrupted>>
batchVars == <<batch, base, bidx, bpc, processed>>
vars == <<geomVars, xTiles, yTiles, pipeVars, batchVars>>

(***************************************************************************)
(* Bounds of the model.                                                    *)
(***************************************************************************)
MaxDim == 4         \* WIDTH and HEIGHT range over 1..MaxDim (plus ExampleGeometry)
MaxTileSize == 2    \* TILESIZE ranges over 1..MaxTileSize
MaxLevels == 8      \* getZoomLevels is followed for at most MaxLevels iterations
MaxTiles == 2       \* a getImage run has a grid of at most MaxTiles tiles
MaxThreads == 2     \* nthreads ranges over 0..MaxThreads
MaxBatch == 3       \* self.imageDirs has 1..MaxBatch entries

\* The example of the comment in getProperties:
\* <IMAGE_PROPERTIES WIDTH="2679" HEIGHT="4000" ... TILESIZE="256"/>
ExampleGeometry == <<2679, 4000, 256>>

Geometries ==
    {<<w, h, t>> : w \in 1..MaxDim, h \in 1..MaxDim, t \in 1..MaxTileSize}
        \cup {ExampleGeometry}

\* Values of the -z option: absent (argparse default False), or the text given.
RequestTexts ==
    { <<>>, <<"0">>, <<"1">>, <<"2">>, <<"3">>, <<"4">>, <<"5">>,
      <<"9", "9">>, <<"-", "1">>, <<"x">> }

Requests ==
    {[given |-> FALSE, text |-> <<>>]}
        \cup {[given |-> TRUE, text |-> t] : t \in RequestTexts}

(***************************************************************************)
(* Arithmetic helpers.                                                     *)
(***************************************************************************)
RECURSIVE Pow2(_)
Pow2(n) == IF n <= 0 THEN 1 ELSE 2 * Pow2(n - 1)

\* truncates instead of rounding up
CeilDiv_RoundDown(a, b) == a \div b

\* int(ceil(a / float(b))) for a >= 0, b > 0
CeilDiv(a, b) == (a + b - 1) \div b

\* rounds the half up instead of truncating it
Halve_RoundUp(n) == (n + 1) \div 2

\* int(locWidth / 2.) for locWidth >= 0
Halve(n) == n \div 2

\* floor(f / pow(2, e)) for the exact fraction f = num/den (den a power of two)
FloorShift(f, e) == f.num \div (f.den * Pow2(e))

RECURSIVE Reverse(_)
Reverse(s) == IF s = <<>> THEN <<>> ELSE Append(Reverse(Tail(s)), Head(s))

\* Python's int(str) on the characters the model uses: an optional sign
\* followed by at least one decimal digit; anything else raises ValueError.
Digits == {"0", "1", "2", "3", "4", "5", "6", "7", "8", "9"}

DigitVal(c) ==
    CASE c = "0" -> 0 [] c = "1" -> 1 [] c = "2" -> 2 [] c = "3" -> 3
      [] c = "4" -> 4 [] c = "5" -> 5 [] c = "6" -> 6 [] c = "7" -> 7
      [] c = "8" -> 8 [] c = "9" -> 9

RECURSIVE DigitsVal(_)
DigitsVal(s) ==
    IF s = <<>> THEN 0
    ELSE 10 * DigitsVal(SubSeq(s, 1, Len(s) - 1)) + DigitVal(s[Len(s)])

AllDigits(s) == s # <<>> /\ \A i \in 1..Len(s) : s[i] \in Digits

ParseInt(s) ==
    IF AllDigits(s) THEN [ok |-> TRUE, val |-> DigitsVal(s)]
    ELSE IF s # <<>> /\ s[1] = "-" /\ AllDigits(Tail(s))
         THEN [ok |-> TRUE, val |-> 0 - DigitsVal(Tail(s))]
    ELSE IF s # <<>> /\ s[1] = "+" /\ AllDigits(Tail(s))
         THEN [ok |-> TRUE, val |-> DigitsVal(Tail(s))]
    ELSE [ok |-> FALSE, val |-> 0]

(***************************************************************************)
(* UntilerDezoomify.getZoomLevels: one iteration of the while loop.        *)
(***************************************************************************)
GetZoomLevelsStep ==
    /\ gpc = "levels"
    /\ Len(levels) < MaxLevels
    /\ LET widthInTiles == CeilDiv(locWidth, tileSize)
           heightInTiles == CeilDiv(locHeight, tileSize)
           appended == Append(levels, <<widthInTiles, heightInTiles>>)
       IN  IF widthInTiles = 1 /\ heightInTiles = 1
           THEN /\ levels' = Reverse(appended)
                /\ gpc' = "zoom"
                /\ UNCHANGED <<locWidth, locHeight>>
           ELSE /\ levels' = appended
                /\ locWidth' = Halve(locWidth)
                /\ locHeight' = Halve(locHeight)
                /\ UNCHANGED gpc
    /\ UNCHANGED <<maxWidth, maxHeight, tileSize, reqZoom, maxZoom, zoomLevel,
                   width, height, zoomWarned, tileUrl, xTiles, yTiles, pipeVars, batchVars>>

(***************************************************************************)
(* getProperties after getZoomLevels: self.maxZoom, the requested zoom     *)
(* level, the size and the tile grid at that level.                        *)
(***************************************************************************)
\* "if not zoomLevel": False and the empty string are falsy
NotRequested(req) == ~req.given \/ req.text = <<>>

\* rejects level 0
LevelAvailable_NoZero(z, mz) == z < mz /\ z > 0

\* "zoomLevel < self.maxZoom and zoomLevel >= 0"
LevelAvailable(z, mz) == z < mz /\ z >= 0

GetProperties ==
    /\ gpc = "zoom"
    /\ LET mz == Len(levels)
           parsed == ParseInt(reqZoom.text)
       IN  IF ~NotRequested(reqZoom) /\ ~parsed.ok
           THEN \* int(zoomLevel) raises ValueError: getProperties is left
                /\ gpc' = "error"
                /\ maxZoom' = mz
                /\ UNCHANGED <<zoomLevel, width, height, zoomWarned, xTiles, yTiles>>
           ELSE LET z == IF NotRequested(reqZoom) THEN mz - 1
                         ELSE IF LevelAvailable(parsed.val, mz) THEN parsed.val
                         ELSE mz - 1
                IN  /\ maxZoom' = mz
                    /\ zoomLevel' = z
                    /\ zoomWarned' = (~NotRequested(reqZoom)
                                        /\ ~LevelAvailable(parsed.val, mz))
                    /\ width' = [num |-> maxWidth, den |-> Pow2(mz - z - 1)]
                    /\ height' = [num |-> maxHeight, den |-> Pow2(mz - z - 1)]
                    /\ xTiles' = levels[z + 1][1]
                    /\ yTiles' = levels[z + 1][2]
                    /\ gpc' = "tiles"
    /\ UNCHANGED <<maxWidth, maxHeight, tileSize, reqZoom, locWidth, locHeight,
                   levels, tileUrl, pipeVars, batchVars>>

(***************************************************************************)
(* UntilerDezoomify.getTileIndex and getImageTileURL.                      *)
(***************************************************************************)
RECURSIVE LevelsBelow(_, _)
\* the for loop of getTileIndex: i = from .. level
LevelsBelow(from, level) ==
    IF from > level THEN 0
    ELSE CeilDiv(FloorShift(width, maxZoom - from), tileSize)
            * CeilDiv(FloorShift(height, maxZoom - from), tileSize)
         + LevelsBelow(from + 1, level)

getTileIndex(level, x, y) ==
    x + y * CeilDiv(FloorShift(width, maxZoom - level - 1), tileSize)
      + LevelsBelow(1, level)

GetImageTileURL(col, row) ==
    /\ gpc = "tiles"
    /\ LET tileIndex == getTileIndex(zoomLevel, col, row)
           tileGroup == tileIndex \div tileSize
       IN  tileUrl' = [group |-> tileGroup, level |-> zoomLevel,
                       col |-> col, row |-> row]
    /\ UNCHANGED <<maxWidth, maxHeight, tileSize, reqZoom, gpc, locWidth,
                   locHeight, levels, maxZoom, zoomLevel, width, height,
                   zoomWarned, xTiles, yTiles, pipeVars, batchVars>>

NoTile == <<-1, -1>>
NoUrl == [group |-> -1, level |-> -1, col |-> -1, row |-> -1]
NoSize == [num |-> 0, den |-> 1]

\* getImage does not run in the geometry specifications
PipeIdle ==
    /\ nthreads = 0 /\ nodownload = FALSE /\ store = FALSE
    /\ mpc = "off" /\ started = 0
    /\ downloadQueue = <<>> /\ joinQueue = <<>>
    /\ wpc = <<>> /\ wtask = <<>> /\ fetchResult = <<>>
    /\ activeTmp = 0 /\ numJoined = 0 /\ numMissing = -1 /\ ops = <<>>
    /\ jtile = NoTile /\ putCount = <<>>
    /\ tmpimgs = {} /\ tileDirExists = FALSE
    /\ attempts = <<>> /\ stage = <<>> /\ tmpContent = <<>>
    /\ missingWarned = FALSE /\ interrupted = FALSE

\* the loop of __init__ does not run in the other specifications
BatchIdle ==
    /\ batch = <<>> /\ base = FALSE /\ bidx = 0 /\ bpc = "off" /\ processed = {}

InitGeom ==
    /\ \E g \in Geometries :
          /\ maxWidth = g[1] /\ maxHeight = g[2] /\ tileSize = g[3]
          /\ locWidth = g[1] /\ locHeight = g[2]
    /\ reqZoom \in Requests
    /\ gpc = "levels"
    /\ levels = <<>>
    /\ maxZoom = 0 /\ zoomLevel = -1
    /\ width = NoSize /\ height = NoSize
    /\ zoomWarned = FALSE
    /\ tileUrl = NoUrl
    /\ xTiles = 0 /\ yTiles = 0
    /\ PipeIdle
    /\ BatchIdle

NextGeom ==
    \/ GetZoomLevelsStep
    \/ GetProperties
    \/ \E col \in 0..(xTiles - 1), row \in 0..(yTiles - 1) : GetImageTileURL(col, row)

SpecGeom == InitGeom /\ [][NextGeom]_vars

(***************************************************************************)
(* ImageUntiler.getImage.                                                  *)
(***************************************************************************)
Tiles == {<<c, r>> : c \in 0..(xTiles - 1), r \in 0..(yTiles - 1)}

\* "for col in range(self.xTiles): for row in range(self.yTiles)"
TaskSeq == [i \in 1..(xTiles * yTiles) |-> <<(i - 1) \div yTiles, (i - 1) % yTiles>>]

\* "'%dx%d' % (self.width, self.height)": %d truncates the float f = num/den
CropSize(f) == f.num \div f.den

\* "'+%d+%d' % (col * self.tileSize, row * self.tileSize)"
DropOffset(col, row) == <<col * tileSize, row * tileSize>>

Workers == 1..nthreads

\* the threads a run could hold: one more than it is asked to start
ThreadSlots == 1..(nthreads + 1)

\* a downloader thread that has been started and has not ended
Alive(w) == wpc[w] \in {"get", "fetch", "put"}

\* counts the downloader threads only, not the main thread
ActiveCount_WorkersOnly == Cardinality({w \in ThreadSlots : Alive(w)})

\* threading.active_count(): the main thread and the live downloader threads
ActiveCount == 1 + Cardinality({w \in ThreadSlots : Alive(w)})

\* starts the downloader threads in every mode
StartsThreads_Always == TRUE

\* "if not self.nodownload"
StartsThreads == ~nodownload

\* starts one thread too many
ThreadsToStart_OneMore == nthreads + 1

\* "for i in range(self.nthreads)"
ThreadsToStart == nthreads

\* leaves the claimed task in the queue
RemainingTasks_Peek(q) == q

\* downloadQueue.get(False) removes the item it returns
RemainingTasks(q) == Tail(q)

\* hands the coordinate over as soon as the task is claimed
AfterClaim_PutFirst == "put"

\* the downloader calls downloadUrl before joinQueue.put
AfterClaim == "fetch"

\* Outcomes of downloadUrl: the tile is written; urllib.error.HTTPError;
\* any other exception of the network layer (URLError, socket errors, ...).
FetchOutcomes == {"ok", "notfound", "neterr"}

\* hands the coordinate over whatever the outcome of the download
AfterFetch_PutAlways(outcome) == "put"

\* where the downloader goes after downloadUrl: on to joinQueue.put; back
\* to the top of its loop from the HTTPError handler; or out of the thread
\* by the exception no handler catches
AfterFetch(outcome) ==
    CASE outcome = "ok" -> "put"
      [] outcome = "notfound" -> "get"
      [] outcome = "neterr" -> "dead"

\* downloadUrl: open(destination, 'wb') creates the file before getUrl runs;
\* f.write is reached only when getUrl returns; the with block closes the file
StageAfterFetch(outcome) == IF outcome = "ok" THEN "complete" ELSE "empty"

\* Outcomes of subprocess.call(cmd): exit status 0; a non-zero exit status
\* (returned and ignored); an exception starting the process (OSError).
\* jpegtran opens its output file only after it has read its inputs, so a
\* call with a non-zero exit status leaves the output file as it was.
CallOutcomes == {"ok", "fail", "raise"}

\* jpegtran can read a staging file only when it holds a whole tile
Readable(t) == stage[t] = "complete"

\* a temporary image file as NamedTemporaryFile leaves it: zero bytes
EmptyTmp == [valid |-> FALSE, tiles |-> {}]

\* allocates a canvas for every tile
NeedsCanvas_Always(n) == TRUE

\* "if numJoined == 0"
NeedsCanvas(n) == n = 0

\* never changes the buffer
Toggle_Stuck(a) == a

\* "(activeTmp + 1) % 2"
Toggle(a) == (a + 1) % 2

\* warns only when more than one tile is missing
MissingWarning_MoreThanOne(n) == n > 1

\* "if numMissing > 0"
MissingWarning(n) == n > 0

\* lines 159-167: fill the queues
FillQueues ==
    /\ mpc = "fill"
    /\ IF nodownload
       THEN /\ joinQueue' = TaskSeq
            /\ putCount' = [t \in Tiles |-> 1]
            /\ UNCHANGED downloadQueue
       ELSE /\ downloadQueue' = TaskSeq
            /\ UNCHANGED <<joinQueue, putCount>>
    /\ mpc' = "start"
    /\ UNCHANGED <<batchVars, interrupted, geomVars, xTiles, yTiles, confVars, wpc, wtask,
                   fetchResult, attempts, started, activeTmp, numJoined,
                   numMissing, missingWarned, jtile, ops, fileVars, stage>>

\* lines 170-174: start one downloader thread
StartThread ==
    /\ mpc = "start"
    /\ StartsThreads
    /\ started < ThreadsToStart
    /\ started' = started + 1
    /\ wpc' = [wpc EXCEPT ![started + 1] = "get"]
    /\ UNCHANGED <<batchVars, interrupted, geomVars, xTiles, yTiles, confVars, downloadQueue,
                   wtask, fetchResult, attempts, mpc, activeTmp, numJoined,
                   numMissing, missingWarned, jtile, ops, fileVars, stage,
                   joinQueue, putCount>>

\* lines 178-188: the two temporary files, activeTmp and numJoined
MakeTmp ==
    /\ mpc = "start"
    /\ ~StartsThreads \/ started >= ThreadsToStart
    /\ tmpimgs' = {0, 1}
    /\ tmpContent' = [i \in {0, 1} |-> EmptyTmp]
    /\ activeTmp' = 0
    /\ numJoined' = 0
    /\ mpc' = "loop"
    /\ UNCHANGED <<batchVars, interrupted, geomVars, xTiles, yTiles, confVars, workVars,
                   started, numMissing, missingWarned, jtile, ops, tileDirExists,
                   stage, joinQueue, putCount>>

\* line 189, left operand: threading.active_count() > 1
LoopActive ==
    /\ mpc = "loop"
    /\ mpc' = IF ActiveCount > 1 THEN "get" ELSE "empty"
    /\ UNCHANGED <<batchVars, interrupted, geomVars, xTiles, yTiles, confVars, workVars,
                   started, activeTmp, numJoined, numMissing, missingWarned,
                   jtile, ops, fileVars, stage, joinQueue, putCount>>

\* line 189, right operand: not joinQueue.empty()
LoopEmpty ==
    /\ mpc = "empty"
    /\ mpc' = IF joinQueue # <<>> THEN "get" ELSE "report"
    /\ UNCHANGED <<batchVars, interrupted, geomVars, xTiles, yTiles, confVars, workVars,
                   started, activeTmp, numJoined, numMissing, missingWarned,
                   jtile, ops, fileVars, stage, joinQueue, putCount>>

\* line 191: joinQueue.get(block=True, timeout=1) returns an item
JoinGet ==
    /\ mpc = "get"
    /\ joinQueue # <<>>
    /\ jtile' = Head(joinQueue)
    /\ joinQueue' = Tail(joinQueue)
    /\ mpc' = IF NeedsCanvas(numJoined) THEN "alloc" ELSE "place"
    /\ UNCHANGED <<batchVars, interrupted, geomVars, xTiles, yTiles, confVars, workVars,
                   started, activeTmp, numJoined, numMissing, missingWarned,
                   ops, fileVars, stage, putCount>>

\* lines 191, 209-210: the get times out on an empty queue (queue.Empty)
JoinTimeout ==
    /\ mpc = "get"
    /\ joinQueue = <<>>
    /\ mpc' = "loop"
    /\ UNCHANGED <<batchVars, interrupted, geomVars, xTiles, yTiles, confVars, workVars,
                   started, activeTmp, numJoined, numMissing, missingWarned,
                   jtile, ops, fileVars, stage, joinQueue, putCount>>

\* lines 194-198: jpegtran -crop WxH+0+0 -outfile tmpimgs[activeTmp] tile
AllocCanvas(res) ==
    /\ mpc = "alloc"
    /\ res = "ok" => Readable(jtile)
    /\ ops' = Append(ops, [op |-> "alloc", tile |-> jtile, in |-> -1,
                           out |-> activeTmp, res |-> res,
                           src |-> stage[jtile], inok |-> TRUE])
    /\ tmpContent' = IF res = "ok"
                     THEN [tmpContent EXCEPT ![activeTmp] =
                              [valid |-> TRUE, tiles |-> {}]]
                     ELSE tmpContent
    /\ mpc' = IF res = "raise" THEN "unwind" ELSE "place"
    /\ UNCHANGED <<batchVars, interrupted, geomVars, xTiles, yTiles, confVars, workVars,
                   started, activeTmp, numJoined, numMissing, missingWarned,
                   jtile, tmpimgs, tileDirExists, stage, joinQueue, putCount>>

\* lines 200-208: jpegtran -drop +x+y tile -outfile tmpimgs[other]
\* tmpimgs[activeTmp]; then the toggle and the count
PlaceTile(res) ==
    /\ mpc = "place"
    /\ res = "ok" => Readable(jtile) /\ tmpContent[activeTmp].valid
    /\ ops' = Append(ops, [op |-> "place", tile |-> jtile, in |-> activeTmp,
                           out |-> (activeTmp + 1) % 2, res |-> res,
                           src |-> stage[jtile],
                           inok |-> tmpContent[activeTmp].valid])
    /\ tmpContent' = IF res = "ok"
                     THEN [tmpContent EXCEPT ![(activeTmp + 1) % 2] =
                              [valid |-> TRUE,
                               tiles |-> tmpContent[activeTmp].tiles \cup {jtile}]]
                     ELSE tmpContent
    /\ IF res = "raise"
       THEN /\ mpc' = "unwind"
            /\ UNCHANGED <<activeTmp, numJoined>>
       ELSE /\ activeTmp' = Toggle(activeTmp)
            /\ numJoined' = numJoined + 1
            /\ mpc' = "loop"
    /\ UNCHANGED <<batchVars, interrupted, geomVars, xTiles, yTiles, confVars, workVars,
                   started, numMissing, missingWarned, jtile, tmpimgs,
                   tileDirExists, stage, joinQueue, putCount>>

\* lines 212-219: numMissing and its warning
Report ==
    /\ mpc = "report"
    /\ numMissing' = xTiles * yTiles - numJoined
    /\ missingWarned' = MissingWarning(xTiles * yTiles - numJoined)
    /\ mpc' = "emit"
    /\ UNCHANGED <<batchVars, interrupted, geomVars, xTiles, yTiles, confVars, workVars,
                   started, activeTmp, numJoined, jtile, ops, fileVars, stage,
                   joinQueue, putCount>>

\* lines 221-223: jpegtran -optimize -outfile outputDestination tmpimgs[activeTmp]
Emit(res) ==
    /\ mpc = "emit"
    /\ res = "ok" => tmpContent[activeTmp].valid
    /\ ops' = Append(ops, [op |-> "emit", tile |-> NoTile, in |-> activeTmp,
                           out |-> -1, res |-> res, src |-> "none",
                           inok |-> tmpContent[activeTmp].valid])
    /\ mpc' = IF res = "raise" THEN "unwind" ELSE "cleanup"
    /\ UNCHANGED <<batchVars, interrupted, geomVars, xTiles, yTiles, confVars, workVars,
                   started, activeTmp, numJoined, numMissing, missingWarned,
                   jtile, fileVars, stage, joinQueue, putCount>>

\* What shutil.rmtree(self.tileDir) can do when the finally clause runs: it is
\* not called ("kept"); it removes the directory; or it raises, because a
\* downloader still holds a staging file open or creates one while the
\* directory is being emptied.
CleanupOutcomes ==
    IF store
    THEN {"kept"}
    ELSE {"removed"} \cup
         (IF \E w \in ThreadSlots :
                 \/ wpc[w] = "fetch"
                 \/ wpc[w] = "get" /\ downloadQueue # <<>>
          THEN {"failed"}
          ELSE {})

\* the staging files a failed rmtree can leave behind
PartlyRemoved ==
    {f \in [Tiles -> {"absent", "writing", "complete", "empty"}] :
        \A t \in Tiles : f[t] \in {stage[t], "absent"}}

\* lines 225-231: the finally clause; after an exception it is re-raised
Cleanup(rm) ==
    /\ mpc \in {"cleanup", "unwind"}
    /\ rm \in CleanupOutcomes
    /\ tmpimgs' = {}
    /\ tmpContent' = [i \in {0, 1} |-> EmptyTmp]
    /\ CASE rm = "kept" ->
              /\ UNCHANGED <<tileDirExists, stage>>
              /\ mpc' = IF mpc = "unwind" THEN "aborted" ELSE "done"
         [] rm = "removed" ->
              /\ tileDirExists' = FALSE
              /\ stage' = [t \in Tiles |-> "absent"]
              /\ mpc' = IF mpc = "unwind" THEN "aborted" ELSE "done"
         [] rm = "failed" ->
              /\ UNCHANGED tileDirExists
              /\ stage' \in PartlyRemoved
              /\ mpc' = "aborted"
    /\ UNCHANGED <<batchVars, interrupted, geomVars, xTiles, yTiles, confVars, workVars,
                   started, activeTmp, numJoined, numMissing, missingWarned,
                   jtile, ops, joinQueue, putCount>>

\* the exception that leaves getImage ends the process, and with it the
\* daemon threads
Running == mpc # "aborted"

\* line 141: downloadQueue.get(False); lines 146-147: queue.Empty ends the
\* thread; lines 142-144 and 131: downloadUrl opens the staging file
WorkerGet(w) ==
    /\ Running
    /\ wpc[w] = "get"
    /\ IF downloadQueue = <<>>
       THEN /\ wpc' = [wpc EXCEPT ![w] = "done"]
            /\ UNCHANGED <<downloadQueue, wtask, attempts, stage>>
       ELSE /\ wtask' = [wtask EXCEPT ![w] = Head(downloadQueue)]
            /\ downloadQueue' = RemainingTasks(downloadQueue)
            /\ attempts' = [attempts EXCEPT ![Head(downloadQueue)] = @ + 1]
            /\ stage' = [stage EXCEPT ![Head(downloadQueue)] = "writing"]
            /\ wpc' = [wpc EXCEPT ![w] = AfterClaim]
    /\ UNCHANGED <<batchVars, interrupted, geomVars, xTiles, yTiles, confVars, fetchResult,
                   mainVars, fileVars, joinQueue, putCount>>

\* lines 131-132, 148-152: getUrl, f.write, the close of the file, and what
\* downloadUrl raises
WorkerFetch(w, outcome) ==
    /\ Running
    /\ wpc[w] = "fetch"
    /\ fetchResult' = [fetchResult EXCEPT ![wtask[w]] = outcome]
    /\ stage' = [stage EXCEPT ![wtask[w]] = StageAfterFetch(outcome)]
    /\ wpc' = [wpc EXCEPT ![w] = AfterFetch(outcome)]
    /\ UNCHANGED <<batchVars, interrupted, geomVars, xTiles, yTiles, confVars, downloadQueue,
                   wtask, attempts, mainVars, fileVars, joinQueue, putCount>>

\* line 145: joinQueue.put((col, row))
WorkerPut(w) ==
    /\ Running
    /\ wpc[w] = "put"
    /\ joinQueue' = Append(joinQueue, wtask[w])
    /\ putCount' = [putCount EXCEPT ![wtask[w]] = @ + 1]
    /\ wpc' = [wpc EXCEPT ![w] = "get"]
    /\ UNCHANGED <<batchVars, interrupted, geomVars, xTiles, yTiles, confVars, downloadQueue,
                   wtask, fetchResult, attempts, mainVars, fileVars, stage>>

\* the geometry is not recomputed during getImage
GeomIdle ==
    /\ maxWidth = 0 /\ maxHeight = 0 /\ tileSize = 0
    /\ reqZoom = [given |-> FALSE, text |-> <<>>]
    /\ gpc = "off"
    /\ locWidth = 0 /\ locHeight = 0
    /\ levels = <<>>
    /\ maxZoom = 0 /\ zoomLevel = -1
    /\ width = NoSize /\ height = NoSize
    /\ zoomWarned = FALSE
    /\ tileUrl = NoUrl

Init ==
    /\ GeomIdle
    /\ BatchIdle
    /\ xTiles \in 1..MaxTiles
    /\ yTiles \in 1..MaxTiles
    /\ xTiles * yTiles <= MaxTiles
    /\ nthreads \in 0..MaxThreads
    /\ nodownload \in BOOLEAN
    /\ store \in BOOLEAN
    /\ nodownload => store          \* __init__, lines 286-287
    /\ mpc = "fill"
    /\ started = 0
    /\ downloadQueue = <<>>
    /\ joinQueue = <<>>
    /\ wpc = [w \in ThreadSlots |-> "new"]
    /\ wtask = [w \in ThreadSlots |-> NoTile]
    /\ fetchResult = [t \in Tiles |-> "none"]
    /\ attempts = [t \in Tiles |-> 0]
    /\ putCount = [t \in Tiles |-> 0]
    /\ activeTmp = 0
    /\ numJoined = 0
    /\ numMissing = -1
    /\ missingWarned = FALSE
    /\ interrupted = FALSE
    /\ jtile = NoTile
    /\ tmpimgs = {}
    /\ tmpContent = [i \in {0, 1} |-> EmptyTmp]
    /\ tileDirExists = TRUE         \* setupDirectory ran before getImage
    \* without downloads the staging files are what an earlier run left
    /\ stage \in [Tiles -> IF nodownload THEN {"complete", "empty", "absent"}
                                         ELSE {"absent"}]
    /\ ops = <<>>

Next ==
    \/ FillQueues
    \/ StartThread
    \/ MakeTmp
    \/ LoopActive
    \/ LoopEmpty
    \/ JoinGet
    \/ JoinTimeout
    \/ \E res \in CallOutcomes : AllocCanvas(res)
    \/ \E res \in CallOutcomes : PlaceTile(res)
    \/ Report
    \/ \E res \in CallOutcomes : Emit(res)
    \/ \E rm \in {"kept", "removed", "failed"} : Cleanup(rm)
    \/ \E w \in ThreadSlots : WorkerGet(w)
    \/ \E w \in ThreadSlots, outcome \in FetchOutcomes : WorkerFetch(w, outcome)
    \/ \E w \in ThreadSlots : WorkerPut(w)

Spec == Init /\ [][Next]_vars

(***************************************************************************)
(* getImage with a KeyboardInterrupt (Ctrl-C) in the main thread.          *)
(***************************************************************************)
\* the positions of the main thread inside the consume loop, lines 189-210
InLoop == mpc \in {"loop", "empty", "get", "alloc", "place"}

\* where KeyboardInterrupt takes the main thread: "except queue.Empty" does
\* not catch it and the try statement of line 187 has no other handler, so
\* control goes to the finally clause
AfterInterrupt == "unwind"

\* Python raises KeyboardInterrupt in the main thread only; the model
\* delivers it once, while the consume loop is running
Interrupt ==
    /\ InLoop
    /\ ~interrupted
    /\ interrupted' = TRUE
    /\ mpc' = AfterInterrupt
    /\ UNCHANGED <<batchVars, geomVars, xTiles, yTiles, confVars, workVars,
                   started, activeTmp, numJoined, numMissing, missingWarned,
                   jtile, ops, fileVars, stage, joinQueue, putCount>>

NextInterrupt ==
    \/ Next
    \/ Interrupt

SpecInterrupt == Init /\ [][NextInterrupt]_vars

(***************************************************************************)
(* ImageUntiler.__init__: the loop over self.imageDirs.                    *)
(***************************************************************************)
\* What the server holds for one entry of the list: everything; no page at
\* the URL; a page without a Zoomify path; an ImageProperties.xml without
\* WIDTH, without HEIGHT, without TILESIZE.
EntryKinds == {"ok", "nopage", "nopath", "nowidth", "noheight", "notilesize"}

Batches == UNION {[1..n -> EntryKinds] : n \in 1..MaxBatch}

\* lines 327-331 and getImageDirectory: with args.base the URL is taken as
\* the image directory; otherwise the page is fetched and searched, and
\* sys.exit() is called when it cannot be fetched or holds no path
BatchLocate ==
    /\ bpc = "locate"
    /\ bpc' = IF ~base /\ batch[bidx] \in {"nopage", "nopath"}
              THEN "exit"
              ELSE "props"
    /\ UNCHANGED <<batch, base, bidx, processed, geomVars, xTiles, yTiles, pipeVars>>

\* line 334 and getProperties, lines 481-500: sys.exit() when a field is
\* not found in ImageProperties.xml
BatchProperties ==
    /\ bpc = "props"
    /\ bpc' = IF batch[bidx] \in {"nowidth", "noheight", "notilesize"}
              THEN "exit"
              ELSE "image"
    /\ UNCHANGED <<batch, base, bidx, processed, geomVars, xTiles, yTiles, pipeVars>>

\* lines 336-342: setupDirectory, getImage and the log line, then the next
\* entry; an exception leaving getImage leaves __init__ too
BatchImage(outcome) ==
    /\ bpc = "image"
    /\ IF outcome = "raised"
       THEN /\ bpc' = "raised"
            /\ UNCHANGED <<bidx, processed>>
       ELSE /\ processed' = processed \cup {bidx}
            /\ IF bidx < Len(batch)
               THEN bidx' = bidx + 1 /\ bpc' = "locate"
               ELSE bidx' = bidx /\ bpc' = "end"
    /\ UNCHANGED <<batch, base, geomVars, xTiles, yTiles, pipeVars>>

InitBatch ==
    /\ GeomIdle
    /\ xTiles = 0 /\ yTiles = 0
    /\ PipeIdle
    /\ batch \in Batches
    /\ base \in BOOLEAN
    /\ bidx = 1
    /\ bpc = "locate"
    /\ processed = {}

NextBatch ==
    \/ BatchLocate
    \/ BatchProperties
    \/ \E outcome \in {"returned", "raised"} : BatchImage(outcome)

SpecBatch == InitBatch /\ [][NextBatch]_vars


(***************************************************************************)
(* Claims about the geometry (checked under SpecGeom).                     *)
(***************************************************************************)
\* q = ceil(a / b), stated without CeilDiv
IsCeilOf(q, a, b) == q * b >= a /\ (q - 1) * b < a

\* getZoomLevels has returned
LevelsBuilt == gpc \in {"zoom", "tiles", "error"}

\* C5: for all positive fullWidth, fullHeight and tileSize getZoomLevels
\* terminates, i.e. the halving loop reaches a level whose tile grid is 1x1.
\* Stated on finite runs: the loop tests the grid of (locWidth, locHeight)
\* against (1,1); a dimension that has been halved to 0 stays 0 and its grid
\* count stays 0, so the loop terminates exactly when it is never found
\* running with a dimension of 0.
C5_Terminates ==
    gpc = "levels" => (locWidth >= 1 /\ locHeight >= 1)

\* the number of tiles of all Python levels[i] with i < z
RECURSIVE TilesBelow(_)
TilesBelow(z) ==
    IF z <= 0 THEN 0 ELSE levels[z][1] * levels[z][2] + TilesBelow(z - 1)

\* C6: for the selected zoom level z and every (col,row) of its grid, the
\* index getTileIndex computes is the number of tiles of all levels below z
\* plus col + row * xTiles(z).
C6_IndexMatchesLevels ==
    gpc = "tiles" =>
        \A col \in 0..(xTiles - 1), row \in 0..(yTiles - 1) :
            getTileIndex(zoomLevel, col, row)
                = TilesBelow(zoomLevel) + col + row * xTiles

AllTiles ==
    UNION { {<<l, c, r>> : c \in 0..(levels[l + 1][1] - 1),
                           r \in 0..(levels[l + 1][2] - 1)}
            : l \in 0..(maxZoom - 1) }

\* C7: whichever zoom level is selected, the global index is injective over
\* all valid (level,col,row), and the index of the first tile of a level
\* strictly increases with the level.
C7_IndexInjective ==
    (gpc = "tiles" /\ tileUrl = NoUrl) =>
        /\ Cardinality({getTileIndex(t[1], t[2], t[3]) : t \in AllTiles})
              = Cardinality(AllTiles)
        /\ \A l \in 0..(maxZoom - 2) :
              getTileIndex(l, 0, 0) < getTileIndex(l + 1, 0, 0)

\* C8: the list built by getZoomLevels has (1,1) at Python index 0 and the
\* full-resolution grid (ceil(W/ts), ceil(H/ts)) at index maxZoom-1, each
\* coarser entry being the grid of the pixel dimensions integer-halved once
\* more; a 1x1 full-resolution grid gives a one-element list; and
\* (2679, 4000, 256) has the finest entry (11,16).
C8_LevelsShape ==
    LevelsBuilt =>
        LET n == Len(levels) IN
        /\ n >= 1
        /\ levels[1] = <<1, 1>>
        /\ IsCeilOf(levels[n][1], maxWidth, tileSize)
        /\ IsCeilOf(levels[n][2], maxHeight, tileSize)
        /\ \A i \in 1..n :
              /\ IsCeilOf(levels[i][1], maxWidth \div Pow2(n - i), tileSize)
              /\ IsCeilOf(levels[i][2], maxHeight \div Pow2(n - i), tileSize)
        /\ (maxWidth <= tileSize /\ maxHeight <= tileSize) => n = 1
        /\ <<maxWidth, maxHeight, tileSize>> = ExampleGeometry
              => levels[n] = <<11, 16>>

C8_Witness ==
    /\ gpc = "tiles"
    /\ <<maxWidth, maxHeight, tileSize>> = ExampleGeometry
    /\ levels = << <<1, 1>>, <<2, 2>>, <<3, 4>>, <<6, 8>>, <<11, 16>> >>

\* the -z texts that denote a zoom level, with the level they denote
RequestedLevels ==
    { << <<"0">>, 0 >>, << <<"1">>, 1 >>, << <<"2">>, 2 >>, << <<"3">>, 3 >>,
      << <<"4">>, 4 >>, << <<"5">>, 5 >>, << <<"9", "9">>, 99 >>,
      << <<"-", "1">>, -1 >> }

\* C9: with no level requested the effective level is maxZoom-1; a requested
\* level r with 0 <= r < maxZoom is used unchanged (r = 0 included); any
\* other requested level falls back to maxZoom-1 with a warning and does not
\* abort; the effective level is always in [0, maxZoom).
C9_ZoomResolution ==
    /\ gpc = "tiles" => zoomLevel \in 0..(maxZoom - 1)
    /\ (gpc \in {"tiles", "error"} /\ ~reqZoom.given) =>
          gpc = "tiles" /\ zoomLevel = maxZoom - 1 /\ ~zoomWarned
    /\ \A p \in RequestedLevels :
          (gpc \in {"tiles", "error"} /\ reqZoom.given /\ reqZoom.text = p[1]) =>
              /\ gpc = "tiles"
              /\ IF 0 <= p[2] /\ p[2] < maxZoom
                 THEN zoomLevel = p[2] /\ ~zoomWarned
                 ELSE zoomLevel = maxZoom - 1 /\ zoomWarned

\* the scenario of the example geometry: level 99 requested, maxZoom = 5
C9_Witness ==
    /\ gpc = "tiles"
    /\ <<maxWidth, maxHeight, tileSize>> = ExampleGeometry
    /\ reqZoom.given /\ reqZoom.text = <<"9", "9">>
    /\ maxZoom = 5 /\ zoomLevel = 4 /\ zoomWarned

(***************************************************************************)
(* Claims about getImage (checked under Spec).                             *)
(***************************************************************************)
\* the positions in ops of the jpegtran calls of one kind
OpIdx(kind) == {i \in 1..Len(ops) : ops[i].op = kind}

\* every jpegtran call issued so far exited with status 0
AllCallsOk == \A i \in 1..Len(ops) : ops[i].res = "ok"

\* the tiles downloadUrl fetched successfully
Succeeded == {t \in Tiles : fetchResult[t] = "ok"}

\* how often a tile was handed to jpegtran -drop
PlaceCount(t) == Cardinality({i \in OpIdx("place") : ops[i].tile = t})

\* the consume loop was left through its condition
LoopExited == mpc \in {"report", "emit", "cleanup", "done"}

\* no jpegtran call issued so far raised an exception
NoCallRaised == \A i \in 1..Len(ops) : ops[i].res # "raise"

\* C1: in a downloading run, whichever tile fetches fail, as long as no
\* jpegtran call raises getImage is not aborted, issues the final
\* optimize-and-emit call exactly once, and reports numMissing =
\* xTiles*yTiles - (number of successfully fetched tiles): 0 when every
\* fetch succeeds, 1 when exactly one tile is not found.
C1_MissingCount ==
    (~nodownload /\ NoCallRaised) =>
        /\ mpc \notin {"unwind", "aborted"}
        /\ Cardinality(OpIdx("emit")) = (IF mpc \in {"cleanup", "done"} THEN 1 ELSE 0)
        /\ mpc \in {"emit", "cleanup", "done"} =>
              /\ numMissing = xTiles * yTiles - Cardinality(Succeeded)
              /\ (\A t \in Tiles : fetchResult[t] = "ok") => numMissing = 0
              /\ (\E t \in Tiles :
                     /\ fetchResult[t] = "notfound"
                     /\ \A u \in Tiles \ {t} : fetchResult[u] = "ok")
                    => numMissing = 1

C1_Witness ==
    /\ mpc = "done" /\ ~nodownload /\ AllCallsOk
    /\ xTiles * yTiles = 2
    /\ \E t \in Tiles :
          /\ fetchResult[t] = "notfound"
          /\ \A u \in Tiles \ {t} : fetchResult[u] = "ok"
    /\ numMissing = 1
    /\ Cardinality(OpIdx("emit")) = 1

\* C2: under every interleaving the consume loop is left through its
\* condition only when every downloader thread has ended and joinQueue is
\* empty; the main thread then has handed to jpegtran exactly the
\* coordinates that were put on joinQueue, each once: no successful fetch is
\* left unmerged and none is merged twice.
C2_ConsumeExactly ==
    /\ \A t \in Tiles : PlaceCount(t) <= putCount[t] /\ PlaceCount(t) <= 1
    /\ LoopExited =>
          /\ \A w \in Workers : ~Alive(w)
          /\ joinQueue = <<>>
          /\ \A t \in Tiles : PlaceCount(t) = putCount[t]
          /\ \A t \in Succeeded : PlaceCount(t) = 1

C2_Witness ==
    /\ mpc = "report" /\ ~nodownload /\ nthreads = 2
    /\ \A w \in Workers : wpc[w] = "done"
    /\ Cardinality(Succeeded) = 2
    /\ \A t \in Tiles : PlaceCount(t) = 1

\* C3: a tile fetch that fails with a network error other than an HTTP
\* status is recoverable: the downloader that hit it drops the task and goes
\* on to claim the next one; it does not terminate.  A thread is "dead"
\* when the exception ended it.
C3_NetErrorRecoverable ==
    \A w \in Workers :
        (wtask[w] # NoTile /\ fetchResult[wtask[w]] = "neterr") => wpc[w] # "dead"

\* C4: when a jpegtran call (allocate, place or emit) fails, the composition
\* is aborted: no further place or emit call is issued and the failed merge
\* is not counted in numJoined.
C4_FailedCallAborts ==
    /\ \A i \in 1..Len(ops) :
          ops[i].res # "ok" =>
              \A j \in (i + 1)..Len(ops) : ops[j].op \notin {"place", "emit"}
    /\ numJoined = Cardinality({i \in OpIdx("place") : ops[i].res = "ok"})

\* the order of the jpegtran calls that C10 and its amendment share: each
\* place call comes after an allocate call, and an emit call is the last call
CallsInOrder ==
    /\ \A i \in OpIdx("place") : \E a \in OpIdx("alloc") : a < i
    /\ \A e \in OpIdx("emit") : e = Len(ops)
    /\ Cardinality(OpIdx("emit")) <= 1
    /\ mpc = "done" => Cardinality(OpIdx("emit")) = 1

\* C10 as stated: in every run the canvas is allocated exactly once,
\* strictly before the first place call; every place call comes strictly
\* before the single final emit call; nothing is placed after emit.
C10_AllocExactlyOnce ==
    /\ CallsInOrder
    /\ mpc = "done" => Cardinality(OpIdx("alloc")) = 1

\* C10 amended: the canvas is allocated at most once, exactly once in a run
\* that places at least one tile and never in a run that joins none,
\* strictly before the first place call; every place call comes strictly
\* before the single final emit call; nothing is placed after emit.
C10_AllocAtMostOnce ==
    /\ CallsInOrder
    /\ Cardinality(OpIdx("alloc")) <= 1
    /\ OpIdx("place") # {} => Cardinality(OpIdx("alloc")) = 1
    /\ mpc = "done" => (Cardinality(OpIdx("alloc")) = 1 <=> numJoined >= 1)

C10_Witness ==
    /\ mpc = "done"
    /\ Len(ops) = 4
    /\ ops[1].op = "alloc" /\ ops[2].op = "place"
    /\ ops[3].op = "place" /\ ops[4].op = "emit"
    /\ ops[2].tile # ops[3].tile

(***************************************************************************)
(* Cleanup, the empty composite, and the run without downloads.            *)
(***************************************************************************)
\* C11: cleanup always happens: once getImage has ended, normally or by an
\* error raised in the compositor, both temporary image files are deleted and
\* the tile directory is deleted if and only if the tiles are not stored.
C11_CleanupAlways ==
    mpc \in {"done", "aborted"} =>
        /\ tmpimgs = {}
        /\ (tileDirExists <=> store)

\* what C12 and its amendment share: a run that leaves the consume loop with
\* numJoined = 0 still issues the final emit call, once, and reports every
\* expected tile as missing, with the warning
EmitsAndWarns ==
    numJoined = 0 =>
        /\ mpc \in {"cleanup", "done"} => Cardinality(OpIdx("emit")) = 1
        /\ mpc \in {"emit", "cleanup", "done"} =>
              /\ numMissing = xTiles * yTiles
              /\ missingWarned

\* C12 as stated: if no tile is ever merged (every fetch fails, or there are
\* no downloader threads) the run still issues the final emit call and warns
\* that all xTiles*yTiles tiles are missing, and the emit call reads a
\* buffer that has been allocated as a canvas.
C12_BlankCanvasEmit ==
    /\ EmitsAndWarns
    /\ numJoined = 0 => \A i \in OpIdx("emit") : ops[i].inok

\* C12 amended: if no tile is ever merged the run still issues the final
\* emit call and warns that all xTiles*yTiles tiles are missing; no canvas
\* was allocated (the allocation needs a first tile), so the emit call reads
\* the temporary file as it was created and cannot succeed.
C12_EmptyBufferEmit ==
    /\ EmitsAndWarns
    /\ numJoined = 0 =>
          \A i \in OpIdx("emit") :
              /\ OpIdx("alloc") = {}
              /\ ~ops[i].inok
              /\ ops[i].res # "ok"

C12_Witness ==
    /\ mpc = "done" /\ ~nodownload /\ nthreads >= 1
    /\ xTiles * yTiles = 2
    /\ \A t \in Tiles : fetchResult[t] = "notfound"
    /\ numJoined = 0 /\ numMissing = 2 /\ missingWarned
    /\ Len(ops) = 1 /\ ops[1].op = "emit"

\* how often a coordinate is waiting on joinQueue
Queued(t) == Cardinality({i \in 1..Len(joinQueue) : joinQueue[i] = t})

\* C13: in a run without downloads no downloader thread is started and
\* nothing is fetched; every coordinate of the grid is put on joinQueue
\* exactly once and taken from it at most once, exactly once when the
\* consume loop has been left; the tile directory is kept.
C13_NoDownloadMode ==
    nodownload =>
        /\ \A w \in ThreadSlots : wpc[w] = "new"
        /\ started = 0 /\ downloadQueue = <<>>
        /\ \A t \in Tiles : attempts[t] = 0 /\ fetchResult[t] = "none"
        /\ mpc # "fill" => \A t \in Tiles : putCount[t] = 1
        /\ \A t \in Tiles : Queued(t) + PlaceCount(t) <= 1
        /\ LoopExited => \A t \in Tiles : Queued(t) = 0 /\ PlaceCount(t) = 1
        /\ store /\ tileDirExists

C13_Witness ==
    /\ nodownload /\ nthreads = 2 /\ mpc = "done"
    /\ xTiles * yTiles = 2
    /\ \A t \in Tiles : PlaceCount(t) = 1
    /\ \A w \in ThreadSlots : wpc[w] = "new"
    /\ tileDirExists

(***************************************************************************)
(* The downloader threads.                                                 *)
(***************************************************************************)
\* how often a task is waiting on downloadQueue
Unclaimed(t) == Cardinality({i \in 1..Len(downloadQueue) : downloadQueue[i] = t})

\* the threads that have claimed a task and not yet finished with it
Holding == {w \in ThreadSlots : wpc[w] \in {"fetch", "put"}}

\* the tiles whose download raised
Failed == {t \in Tiles : fetchResult[t] \in {"notfound", "neterr"}}

\* C14: every task is claimed by at most one downloader and downloadUrl is
\* called at most once for it: a task is either still on downloadQueue or
\* has been claimed once, no two threads hold the same task, and a tile
\* whose download failed is not queued again, so it is never put on
\* joinQueue and never handed to jpegtran.
C14_ClaimedOnce ==
    /\ \A t \in Tiles : attempts[t] <= 1
    /\ (~nodownload /\ mpc # "fill") =>
          \A t \in Tiles : Unclaimed(t) + attempts[t] = 1
    /\ \A v, w \in Holding : v # w => wtask[v] # wtask[w]
    /\ \A t \in Failed :
          /\ Unclaimed(t) = 0
          /\ putCount[t] = 0 /\ Queued(t) = 0 /\ PlaceCount(t) = 0

C14_Witness ==
    /\ mpc = "done" /\ nthreads = 2
    /\ wtask[1] # NoTile /\ wtask[2] # NoTile /\ wtask[1] # wtask[2]
    /\ fetchResult[wtask[1]] = "notfound" /\ putCount[wtask[1]] = 0
    /\ fetchResult[wtask[2]] = "ok" /\ putCount[wtask[2]] = 1
    /\ \A t \in Tiles : attempts[t] = 1

\* the threads inside downloadUrl
InFlight == {w \in ThreadSlots : wpc[w] = "fetch"}

\* C15: at every moment at most nthreads downloads are in flight: at most
\* nthreads threads are inside downloadUrl and at most nthreads staging
\* files are being written.
C15_InFlightBound ==
    /\ Cardinality(InFlight) <= nthreads
    /\ Cardinality({t \in Tiles : stage[t] = "writing"}) <= nthreads
    /\ Cardinality({w \in ThreadSlots : Alive(w)}) <= nthreads

C15_Witness ==
    /\ nthreads = 2
    /\ Cardinality(InFlight) = 2
    /\ \A t \in Tiles : stage[t] = "writing"

(***************************************************************************)
(* The batch.                                                              *)
(***************************************************************************)
\* the entries whose image directory and geometry can be found
Processable(i) ==
    \/ batch[i] = "ok"
    \/ base /\ batch[i] \in {"nopage", "nopath"}

\* C16: in a batch, an entry whose base directory cannot be found or whose
\* ImageProperties.xml lacks a field aborts only that image: when the
\* program has ended, after such an entry or after the last one, every
\* entry that can be processed has been processed.
C16_BatchContinues ==
    bpc \in {"exit", "end"} =>
        \A i \in 1..Len(batch) : Processable(i) => i \in processed

(***************************************************************************)
(* The end of the downloader threads and the temporary image files.        *)
(***************************************************************************)
\* the threads that have ended, by return or by an exception
Terminated == {w \in ThreadSlots : wpc[w] \in {"done", "dead"}}

\* C17: a downloader thread ends only when it finds downloadQueue empty:
\* nothing is put on downloadQueue after the threads are started, so once a
\* thread has ended the queue is empty, and with every thread ended every
\* task has been claimed and attempted.
C17_EndsOnlyOnEmpty ==
    /\ Terminated # {} => downloadQueue = <<>>
    /\ (nthreads >= 1 /\ Terminated = Workers) =>
          \A t \in Tiles : attempts[t] = 1

\* C18: after any sequence of merges, failed jpegtran -drop calls included,
\* the active temporary file holds the composite of exactly the tiles counted
\* in numJoined: numJoined counts the successful place calls only, and while
\* the temporary files exist and numJoined >= 1 the file tmpimgs[activeTmp]
\* is an image made of numJoined tiles.
C18_ActiveHoldsJoined ==
    tmpimgs # {} =>
        /\ numJoined = Cardinality({i \in OpIdx("place") : ops[i].res = "ok"})
        /\ numJoined >= 1 =>
              /\ tmpContent[activeTmp].valid
              /\ Cardinality(tmpContent[activeTmp].tiles) = numJoined

\* the place calls that ran (a call that raised started no process and is
\* followed by no toggle)
Placed == {j \in OpIdx("place") : ops[j].res # "raise"}

\* the temporary file that was active when call i was issued: the output
\* file of the latest place call before it, file 0 before any place call
ActiveAt(i) ==
    LET before == {j \in Placed : j < i}
    IN  IF before = {}
        THEN 0
        ELSE ops[CHOOSE j \in before : \A k \in before : k <= j].out

\* C19: exactly one of the two temporary files is active at every step;
\* every place call reads the active file and writes the other one, never
\* reading and writing the same file; place and emit calls read no file but
\* the active one; the emit call reads the output file of the most recent
\* place call.  (The canvas is allocated in the active file.)
C19_DoubleBuffer ==
    /\ activeTmp \in {0, 1}
    /\ \A i \in OpIdx("place") :
          /\ ops[i].in = ActiveAt(i)
          /\ ops[i].out \in {0, 1} /\ ops[i].out # ops[i].in
    /\ \A i \in OpIdx("alloc") : ops[i].out = ActiveAt(i)
    /\ \A i \in OpIdx("emit") : ops[i].in = ActiveAt(i)
    /\ activeTmp = ActiveAt(Len(ops) + 1)

C19_Witness ==
    /\ mpc = "done" /\ AllCallsOk
    /\ Len(ops) = 4
    /\ ops[1].op = "alloc" /\ ops[1].out = 0
    /\ ops[2].op = "place" /\ ops[2].in = 0 /\ ops[2].out = 1
    /\ ops[3].op = "place" /\ ops[3].in = 1 /\ ops[3].out = 0
    /\ ops[4].op = "emit" /\ ops[4].in = 0

\* C20: a downloader puts a coordinate on joinQueue only after the tile's
\* staging file has been written in full and closed, so in a downloading
\* run every coordinate a thread is about to put, every coordinate waiting
\* on joinQueue and every tile jpegtran is given is a tile whose download
\* succeeded and whose file is complete: never one still being written,
\* never one whose download failed.
C20_HandOverAfterClose ==
    ~nodownload =>
        /\ \A w \in ThreadSlots :
              wpc[w] = "put" =>
                  /\ fetchResult[wtask[w]] = "ok"
                  /\ Running => stage[wtask[w]] = "complete"
        /\ \A t \in Tiles :
              Queued(t) > 0 =>
                  /\ fetchResult[t] = "ok"
                  /\ Running => stage[t] = "complete"
        /\ mpc \in {"alloc", "place"} => stage[jtile] = "complete"
        /\ \A i \in OpIdx("alloc") \cup OpIdx("place") : ops[i].src = "complete"

C20_Witness ==
    /\ ~nodownload /\ mpc = "loop"
    /\ \E i \in OpIdx("place") : ops[i].src = "complete" /\ ops[i].res = "ok"
    /\ \E t \in Tiles : stage[t] = "writing"
    /\ \E w \in ThreadSlots : wpc[w] = "fetch"

(***************************************************************************)
(* The tile grid and the canvas (checked under SpecGeom).                  *)
(***************************************************************************)
\* C22: whenever getZoomLevels has returned and a level z is selected, the
\* canvas jpegtran -crop is asked for is floor(maxWidth / 2^(maxZoom-z-1))
\* by floor(maxHeight / 2^(maxZoom-z-1)), xTiles and yTiles are the
\* ceilings of its sides over tileSize, and the offset of every tile
\* (col,row) of the grid lies strictly inside the canvas.
C22_GridMatchesCanvas ==
    gpc = "tiles" =>
        LET k == maxZoom - zoomLevel - 1
            cw == CropSize(width)
            ch == CropSize(height)
        IN  /\ cw * Pow2(k) <= maxWidth /\ maxWidth < (cw + 1) * Pow2(k)
            /\ ch * Pow2(k) <= maxHeight /\ maxHeight < (ch + 1) * Pow2(k)
            /\ IsCeilOf(xTiles, cw, tileSize)
            /\ IsCeilOf(yTiles, ch, tileSize)
            /\ xTiles >= 1 /\ yTiles >= 1
            /\ \A col \in 0..(xTiles - 1), row \in 0..(yTiles - 1) :
                  /\ DropOffset(col, row)[1] >= 0
                  /\ DropOffset(col, row)[1] < cw
                  /\ DropOffset(col, row)[2] >= 0
                  /\ DropOffset(col, row)[2] < ch

\* the example geometry at level 3: a 1339 x 2000 canvas under a 6 x 8 grid,
\* the last column 59 pixels wide
C22_Witness ==
    /\ gpc = "tiles"
    /\ <<maxWidth, maxHeight, tileSize>> = ExampleGeometry
    /\ zoomLevel = 3 /\ maxZoom = 5
    /\ CropSize(width) = 1339 /\ CropSize(height) = 2000
    /\ xTiles = 6 /\ yTiles = 8
    /\ DropOffset(5, 7) = <<1280, 1792>>

(***************************************************************************)
(* The interrupted run (checked under SpecInterrupt).                      *)
(***************************************************************************)
\* C21: when KeyboardInterrupt arrives while the consume loop is running,
\* after at least one tile has been merged, getImage still issues the final
\* optimize-and-emit call on what was merged before it cleans up, so the
\* run does not end without that call; and it does not remove the tile
\* directory while a downloader thread is still writing into it.
C21_InterruptStillEmits ==
    (interrupted /\ numJoined >= 1) =>
        /\ mpc = "aborted" => OpIdx("emit") # {}
        /\ ~tileDirExists => \A w \in ThreadSlots : wpc[w] # "fetch"

====
